---- MODULE Spec2Model ----
(***************************************************************************)
(* The two feed-normalisation handlers of the dashboard add-on kit:        *)
(*   api/ttc-alerts.ts     TTC GTFS-RT alerts   -> JSON                    *)
(*   api/envcan-alerts.ts  Environment Canada ATOM -> JSON                 *)
(* Each invocation is a small state machine whose steps are the handler's  *)
(* await points; what runs between two awaits is one atomic action.        *)
(***************************************************************************)
EXTENDS Integers, Sequences, FiniteSets, TLC

(***************************************************************************)
(* JavaScript values.  Every value is a record tagged by its typeof; a     *)
(* property that an object does not carry reads as Undefined.              *)
(***************************************************************************)
Undefined == [t |-> "undefined"]
Null == [t |-> "null"]
Str(s) == [t |-> "string", s |-> s]
Num(n) == [t |-> "number", n |-> n]
Arr(items) == [t |-> "array", items |-> items]

\* 64-bit epoch seconds, taken as a JavaScript number.  They do not fit the
\* checker's integers once multiplied by 1000, so a timestamp is kept as
\* whole days plus seconds of the day.
Epoch(days, secs) == [t |-> "number", days |-> days, secs |-> secs]

IsNullish(v) == v.t \in {"undefined", "null"}

\* ToBoolean: what `v ? a : b`, `v || d` and filter(v) test.
Truthy(v) ==
    CASE v.t \in {"undefined", "null"} -> FALSE
      [] v.t = "string" -> v.s # ""
      [] v.t = "number" -> IF "n" \in DOMAIN v THEN v.n # 0
                           ELSE v.days # 0 \/ v.secs # 0
      [] OTHER -> TRUE

\* a || d
OrElse(v, d) == IF Truthy(v) THEN v ELSE d

\* a ?? d
Coalesce(v, d) == IF IsNullish(v) THEN d ELSE v

\* o?.k and o.k on a non-nullish primitive: a key the value lacks is undefined.
Get(o, k) == IF o.t = "object" /\ k \in DOMAIN o THEN o[k] ELSE Undefined

(***************************************************************************)
(* Date(ms).toISOString()                                                  *)
(***************************************************************************)
\* ECMAScript time values stop 100,000,000 days either side of the epoch.
MaxDateDays == 100000000

ValidDate(e) == e.days < MaxDateDays \/ (e.days = MaxDateDays /\ e.secs = 0)

Pad(n, width) ==
    LET s == ToString(n)
        zeros == [i \in 0..6 |-> SubSeq("000000", 1, i)]
    IN IF Len(s) >= width THEN s ELSE zeros[width - Len(s)] \o s

\* Proleptic Gregorian date of a day count since 1970-01-01, by 400-year
\* eras starting on 0000-03-01: year of era, day of year, month from March.
YearOfEra(doe) == (doe - (doe \div 1460) + (doe \div 36524) - (doe \div 146096)) \div 365

DayOfYear(doe, yoe) == doe - (365 * yoe + (yoe \div 4) - (yoe \div 100))

CivilOfMonth(era, yoe, doy, mp) ==
    [year |-> yoe + era * 400 + (IF mp < 10 THEN 0 ELSE 1),
     month |-> IF mp < 10 THEN mp + 3 ELSE mp - 9,
     day |-> doy - ((153 * mp + 2) \div 5) + 1]

CivilOfDay(era, yoe, doy) == CivilOfMonth(era, yoe, doy, (5 * doy + 2) \div 153)

CivilOfYear(era, doe, yoe) == CivilOfDay(era, yoe, DayOfYear(doe, yoe))

CivilOfEra(era, doe) == CivilOfYear(era, doe, YearOfEra(doe))

CivilFromShifted(z) == CivilOfEra(z \div 146097, z % 146097)

CivilFromDays(days) == CivilFromShifted(days + 719468)

FormatYear(y) == IF y <= 9999 THEN Pad(y, 4) ELSE "+" \o Pad(y, 6)

FormatISO(c, secs) ==
    FormatYear(c.year) \o "-" \o Pad(c.month, 2) \o "-" \o Pad(c.day, 2) \o "T"
      \o Pad(secs \div 3600, 2) \o ":" \o Pad((secs \div 60) % 60, 2)
      \o ":" \o Pad(secs % 60, 2) \o ".000Z"

ToISOString(e) == FormatISO(CivilFromDays(e.days), e.secs)


(***************************************************************************)
(* Outcome of a computation that may throw.                                *)
(***************************************************************************)
Return(v) == [ok |-> TRUE, value |-> v]
Throw(e) == [ok |-> FALSE, err |-> e]

\* new Error(msg), and the errors the runtime and the libraries raise.
JsError(msg) == [t |-> "object", name |-> "Error", message |-> Str(msg)]
InvalidTimeValue == [t |-> "object", name |-> "RangeError", message |-> Str("Invalid time value")]
TrimNotAFunction == [t |-> "object", name |-> "TypeError", message |-> Str("trim is not a function")]

\* new Date(Number(x) * 1000).toISOString(): a RangeError outside the Date range.
DateToISO(e) == IF ValidDate(e) THEN Return(Str(ToISOString(e))) ELSE Throw(InvalidTimeValue)

\* The outcomes of the elements of an array, in order, as one outcome: the
\* first throw ends the evaluation.
Collect(outs) ==
    IF \E i \in 1..Len(outs) : ~outs[i].ok
    THEN LET bad == CHOOSE i \in 1..Len(outs) :
                        /\ ~outs[i].ok
                        /\ \A j \in 1..(i - 1) : outs[j].ok
         IN Throw(outs[bad].err)
    ELSE Return([i \in 1..Len(outs) |-> outs[i].value])

\* (v || []) for a value that is an array when present.
ItemsOrEmpty(v) == IF Truthy(v) THEN v.items ELSE <<>>

\* arr?.[i]
ElementAt(arr, i) ==
    IF arr.t = "array" /\ i + 1 <= Len(arr.items) THEN arr.items[i + 1] ELSE Undefined

\* String(v), v.toString() and the conversion inside a template literal.
RECURSIVE Join(_)
Join(items) ==
    IF Len(items) = 0 THEN ""
    ELSE IF Len(items) = 1 THEN
        (IF IsNullish(items[1]) THEN "" ELSE items[1].s)
    ELSE (IF IsNullish(items[1]) THEN "" ELSE items[1].s) \o "," \o Join(Tail(items))

ToStr(v) ==
    CASE v.t = "string" -> v.s
      [] v.t = "number" -> ToString(v.n)
      [] v.t = "array" -> Join(v.items)
      [] v.t = "undefined" -> "undefined"
      [] v.t = "null" -> "null"
      [] OTHER -> "[object Object]"

\* String.prototype.trim
IsSpace(c) == c \in {" ", "\t", "\n", "\r"}

RECURSIVE TrimStart(_)
TrimStart(s) ==
    IF Len(s) > 0 /\ IsSpace(SubSeq(s, 1, 1)) THEN TrimStart(SubSeq(s, 2, Len(s))) ELSE s

RECURSIVE TrimEnd(_)
TrimEnd(s) ==
    IF Len(s) > 0 /\ IsSpace(SubSeq(s, Len(s), Len(s)))
    THEN TrimEnd(SubSeq(s, 1, Len(s) - 1)) ELSE s

Trim(s) == TrimEnd(TrimStart(s))

(***************************************************************************)
(* api/ttc-alerts.ts: the mapping of the decoded feed.                     *)
(***************************************************************************)
TTC_ALERTS_FEED == "https://bustime.ttc.ca/gtfsrt/alerts"

pickTextLast(tx) ==
    LET items == ItemsOrEmpty(Get(tx, "translation"))
        text == IF Len(items) > 0 THEN Get(items[Len(items)], "text") ELSE Undefined
    IN IF Truthy(text) THEN Str(ToStr(text)) ELSE Undefined

pickTextFirstAvailable(tx) ==
    LET items == ItemsOrEmpty(Get(tx, "translation"))
        filled == SelectSeq(items, LAMBDA tr : Truthy(Get(tr, "text")))
    IN IF Len(filled) > 0 THEN Str(ToStr(filled[1].text)) ELSE Undefined

\* tx?.translation?.[0]?.text ? String(tx.translation[0].text) : undefined
pickText(tx) ==
    LET text == Get(ElementAt(Get(tx, "translation"), 0), "text")
    IN IF Truthy(text) THEN Str(ToStr(text)) ELSE Undefined

MapBoundNullish(b) == IF ~IsNullish(b) THEN DateToISO(b) ELSE Return(Null)

\* One bound of an active period: `b ? new Date(...).toISOString() : null`.
MapBound(b) == IF Truthy(b) THEN DateToISO(b) ELSE Return(Null)

\* The object literal: start is evaluated before end.
PeriodOf(start, end) ==
    IF ~start.ok THEN start
    ELSE IF ~end.ok THEN end
    ELSE Return([t |-> "object", start |-> start.value, end |-> end.value])

MapPeriod(p) == PeriodOf(MapBound(Get(p, "start")), MapBound(Get(p, "end")))

MapPeriods(src) == Collect([i \in 1..Len(src) |-> MapPeriod(src[i])])

MapInformed(ie) ==
    [t |-> "object",
     routeId |-> Coalesce(Get(ie, "routeId"), Null),
     stopId |-> Coalesce(Get(ie, "stopId"), Null),
     tripId |-> Coalesce(Get(Get(ie, "trip"), "tripId"), Null)]

MapInformedAll(inf) == [i \in 1..Len(inf) |-> MapInformed(inf[i])]

\* The record of one entity, given its alert and its mapped periods.
AlertRecord(id, a, periods) ==
    IF ~periods.ok THEN periods
    ELSE Return(
      [t |-> "object",
       id |-> id,
       header |-> OrElse(pickText(Get(a, "headerText")), Null),
       description |-> OrElse(pickText(Get(a, "descriptionText")), Null),
       url |-> OrElse(pickText(Get(a, "url")), Null),
       cause |-> Coalesce(Get(a, "cause"), Null),
       effect |-> Coalesce(Get(a, "effect"), Null),
       severity |-> Coalesce(Get(a, "severity"), Null),
       activePeriods |-> periods.value,
       informed |-> MapInformedAll(ItemsOrEmpty(Get(a, "informedEntity")))])

MapAlert(e) ==
    AlertRecord(Get(e, "id"), Get(e, "alert"),
                MapPeriods(ItemsOrEmpty(Get(Get(e, "alert"), "activePeriod"))))

HasAlertAlways(e) == TRUE

\* .filter((e) => e.alert)
HasAlert(e) == Truthy(Get(e, "alert"))

MapKept(kept) == Collect([i \in 1..Len(kept) |-> MapAlert(kept[i])])

MapAlerts(feed) == MapKept(SelectSeq(ItemsOrEmpty(Get(feed, "entity")), HasAlert))

\* FeedMessage.decode(buf): the message the bytes encode, or the decoder's error.
DecodeFeed(body) ==
    IF body.k = "malformed" THEN Throw(JsError(body.message)) ELSE Return(body.feed)

\* The mapping runs on the decoded feed unless the decoder threw.
MapDecoded(feed) == IF feed.ok THEN MapAlerts(feed.value) ELSE feed

TtcBody(alerts) ==
    IF alerts.ok
    THEN Return([source |-> "bustime.ttc.ca", count |-> Len(alerts.value),
                 alerts |-> alerts.value])
    ELSE alerts

\* Lines 12-42 after the body has been read: the 200 body, or what was thrown.
TtcPipeline(body) == TtcBody(MapDecoded(DecodeFeed(body)))

(***************************************************************************)
(* api/envcan-alerts.ts: region, URL and the mapping of the parsed feed.   *)
(***************************************************************************)
REGION_DEFAULT == "on61"

\* (req.query.region as string) || REGION_DEFAULT: the cast converts nothing.
ResolveRegion(q) == OrElse(q, Str(REGION_DEFAULT))

EnvCanUrl(region) ==
    "https://weather.gc.ca/rss/battleboard/" \o ToStr(region) \o "_e.xml"

\* Array.isArray(raw) ? raw : raw ? [raw] : []
EntryList(raw) ==
    IF raw.t = "array" THEN raw.items
    ELSE IF Truthy(raw) THEN <<raw>>
    ELSE <<>>

\* s?.trim() || ''
TrimOrEmpty(s) ==
    IF IsNullish(s) THEN Return(Str(""))
    ELSE IF s.t = "string" THEN Return(OrElse(Str(Trim(s.s)), Str("")))
    ELSE Throw(TrimNotAFunction)

\* (typeof e.summary === 'string' ? e.summary : e.summary?.['#text'])?.trim() || ''
MapSummary(summary) ==
    TrimOrEmpty(IF summary.t = "string" THEN summary ELSE Get(summary, "#text"))

\* The record of one entry, given its link href and its mapped summary;
\* title precedes summary in the literal and cannot throw.
EntryRecord(e, href, summary) ==
    IF ~summary.ok THEN summary
    ELSE Return(
      [t |-> "object",
       id |-> OrElse(Get(e, "id"), OrElse(href, Get(e, "updated"))),
       title |-> Str(Trim(ToStr(OrElse(Get(e, "title"), Str(""))))),
       updatedISO |-> OrElse(Get(e, "updated"), OrElse(Get(e, "published"), Null)),
       summary |-> summary.value,
       link |-> OrElse(href, Null)])

MapEntry(e) == EntryRecord(e, Get(Get(e, "link"), "href"), MapSummary(Get(e, "summary")))

MapList(list) == Collect([i \in 1..Len(list) |-> MapEntry(list[i])])

MapEntries(feed) == MapList(EntryList(Get(Get(feed, "feed"), "entry")))

\* parser.parse(xml): the tree of the document, or the parser's error.
ParseXml(body) ==
    IF body.k = "malformed" THEN Throw(JsError(body.message)) ELSE Return(body.tree)

\* The mapping runs on the parsed tree unless the parser threw.
MapParsed(feed) == IF feed.ok THEN MapEntries(feed.value) ELSE feed

EnvCanBody(rg, entries) ==
    IF entries.ok THEN Return([region |-> rg, entries |-> entries.value]) ELSE entries

\* Lines 16-30 after the body has been read: the 200 body, or what was thrown.
EnvCanPipeline(rg, body) == EnvCanBody(rg, MapParsed(ParseXml(body)))

(***************************************************************************)
(* The response object and the catch block shared by both handlers.        *)
(***************************************************************************)
HeaderNames == {"Cache-Control", "Access-Control-Allow-Origin"}

\* A fresh response: no header set (""), nothing sent.
NewRes == [headers |-> [n \in HeaderNames |-> ""], statusCode |-> 200, out |-> <<>>]

SetHeader(r, name, value) == [r EXCEPT !.headers[name] = value]

Status(r, code) == [r EXCEPT !.statusCode = code]

\* res.json(body) going through: the response leaves with the status and the
\* headers set so far.
Json(r, body) ==
    [r EXCEPT !.out = Append(@, [status |-> r.statusCode, headers |-> r.headers, body |-> body])]

ErrorMessageNoFallback(err) == Get(err, "message")

\* err?.message ?? 'failed'
ErrorMessage(err) == Coalesce(Get(err, "message"), Str("failed"))

CatchWithoutCors(r, err) == Json(Status(r, 500), [error |-> ErrorMessage(err)])

\* catch (err) { setHeader(ACAO); res.status(500).json({ error }) }
Catch(r, err) ==
    Json(Status(SetHeader(r, "Access-Control-Allow-Origin", "*"), 500),
         [error |-> ErrorMessage(err)])

\* An invocation is named after its handler; "envcan-2" is a second
\* invocation of the weather handler, in flight next to the first.
Second == "envcan-2"

HandlerOf(i) == IF i = Second THEN "envcan" ELSE i

CacheControlOfTransit(h) == "s-maxage=60, stale-while-revalidate=300"

CacheControl(h) ==
    IF HandlerOf(h) = "ttc" THEN "s-maxage=60, stale-while-revalidate=300"
    ELSE "s-maxage=120, stale-while-revalidate=600"

\* The two setHeader calls and res.status(200) before json() runs.
Prepare200(r, h) ==
    Status(SetHeader(SetHeader(r, "Cache-Control", CacheControl(h)),
                     "Access-Control-Allow-Origin", "*"), 200)

OkBelow400(resp) == resp.status < 400

\* if (!resp.ok) throw new Error(`... fetch failed: ${status} ${statusText}`)
Ok(resp) == 200 <= resp.status /\ resp.status <= 299

FetchFailed(h, resp) ==
    JsError((IF HandlerOf(h) = "ttc" THEN "TTC alerts fetch failed: " ELSE "EnvCan fetch failed: ")
            \o ToString(resp.status) \o " " \o resp.statusText)

(***************************************************************************)
(* What the world can hand to a handler: requests, upstream responses,     *)
(* bodies.  The sets are small and cover every branch of the mapping.      *)
(***************************************************************************)
MaxEntities == 2
MaxPeriods == 2
MaxInformed == 2
MaxEntries == 2

SeqsUpTo(S, n) == UNION {[1..k -> S] : k \in 0..n}

Obj(fields) == [t |-> "object"] @@ fields

\* ---- the transit feed ----
TranslatedString(texts) ==
    [t |-> "object",
     translation |-> Arr([i \in 1..Len(texts) |-> [t |-> "object", text |-> Str(texts[i])]])]

Texts ==
    {Undefined, TranslatedString(<<>>), TranslatedString(<<"Line closure">>),
     TranslatedString(<<"Line closure", "Fermeture de ligne">>),
     TranslatedString(<<"", "Fermeture de ligne">>)}

\* Epoch seconds: absent, zero, 2023-11-14T22:13:20Z, and one second past
\* the last instant a Date can hold.
Bounds == {Undefined, Epoch(0, 0), Epoch(19675, 80000), Epoch(MaxDateDays, 1)}

Periods == {[t |-> "object", start |-> s, end |-> e] : s \in Bounds, e \in Bounds}

Trips == {Undefined, [t |-> "object", tripId |-> Undefined], [t |-> "object", tripId |-> Str("T1")]}

Selectors ==
    {[t |-> "object", routeId |-> r, stopId |-> st, trip |-> tr] :
        r \in {Undefined, Str("501")}, st \in {Undefined, Str("")}, tr \in Trips}

Codes == {Undefined, Num(0), Num(9)}

Alert(header, description, url, cause, effect, severity, periods, informed) ==
    [t |-> "object", headerText |-> header, descriptionText |-> description, url |-> url,
     cause |-> cause, effect |-> effect, severity |-> severity,
     activePeriod |-> periods, informedEntity |-> informed]

BareAlert ==
    Alert(Undefined, Undefined, Undefined, Undefined, Undefined, Undefined, Undefined, Undefined)

\* header "Line closure", no url, one active period with only a start.
ClosureAlert ==
    Alert(TranslatedString(<<"Line closure">>), TranslatedString(<<"Shuttle buses run">>),
          Undefined, Num(9), Num(1), Undefined,
          Arr(<<[t |-> "object", start |-> Epoch(19675, 80000), end |-> Undefined]>>),
          Arr(<<[t |-> "object", routeId |-> Str("501"), stopId |-> Undefined, trip |-> Undefined]>>))

Alerts ==
    {BareAlert, ClosureAlert}
    \cup {[ClosureAlert EXCEPT !.headerText = x] : x \in Texts}
    \cup {[ClosureAlert EXCEPT !.descriptionText = x] : x \in Texts}
    \cup {[ClosureAlert EXCEPT !.url = x] : x \in Texts}
    \cup {[ClosureAlert EXCEPT !.cause = c, !.effect = f, !.severity = v] :
              c \in Codes, f \in Codes, v \in Codes}
    \cup {[ClosureAlert EXCEPT !.activePeriod = Arr(ps)] : ps \in SeqsUpTo(Periods, MaxPeriods)}
    \cup {[ClosureAlert EXCEPT !.informedEntity = Arr(ss)] : ss \in SeqsUpTo(Selectors, MaxInformed)}

Entity(id, alert) == [t |-> "object", id |-> Str(id), alert |-> alert]

\* Entities for feeds of several: a vehicle entity without alert, and two alerts.
FewEntities == {Entity("v1", Null), Entity("a1", BareAlert), Entity("a2", ClosureAlert)}

Feeds ==
    {[t |-> "object", entity |-> Arr(es)] : es \in SeqsUpTo(FewEntities, MaxEntities)}
    \cup {[t |-> "object", entity |-> Arr(<<Entity("a3", a)>>)] : a \in Alerts}

TtcBodies ==
    {[k |-> "malformed", message |-> "index out of range: 3 + 10 > 5"]}
    \cup {[k |-> "feed", feed |-> f] : f \in Feeds}

\* ---- the weather feed ----
\* The parser hands numeric text over as a number, an element with
\* attributes as an object whose "#text" is its text.
Titles == {Undefined, Str(" Winter Storm Watch "), Num(2024)}

Summaries ==
    {Undefined, Str("  Snow at times heavy. "), Str("   "), Num(30),
     Obj("#text" :> Str(" Snow. \n")), Obj("#text" :> Num(30)), Obj("type" :> Str("html"))}

Links == {Undefined, [t |-> "object", href |-> Str("https://weather.gc.ca/warnings/report_e.html?on61")]}

Stamps == {Undefined, Str("2024-01-12T15:04:00Z")}

Entries ==
    {[t |-> "object", id |-> i, link |-> l, updated |-> u, published |-> pb,
      title |-> ti, summary |-> su] :
        i \in {Undefined, Str("tag:weather.gc.ca,2013-04-16:on61_w1")}, l \in Links,
        u \in Stamps, pb \in {Undefined, Str("2024-01-12T14:00:00Z")},
        ti \in Titles, su \in Summaries}

WatchEntry ==
    [t |-> "object", id |-> Str("tag:weather.gc.ca,2013-04-16:on61_w1"), link |-> Undefined,
     updated |-> Str("2024-01-12T15:04:00Z"), published |-> Undefined,
     title |-> Str(" Winter Storm Watch "), summary |-> Str("  Snow at times heavy. ")]

\* What one <entry> element parses to: an object, or its text when it has
\* no child element ("" for an empty element).
EntryValues == Entries \cup {Str(""), Str("No watches or warnings in effect.")}

FewEntryValues == {WatchEntry, [WatchEntry EXCEPT !.id = Undefined, !.updated = Undefined], Str("")}

\* Two or more <entry> elements parse to an array.
EntryArrays == UNION {[1..k -> FewEntryValues] : k \in 2..MaxEntries}

\* A document without <feed> (RSS, HTML, plain text), an empty <feed/>, a
\* feed without entry, with one entry, with several.
Trees ==
    {[t |-> "object"], [t |-> "object", rss |-> [t |-> "object", version |-> Str("2.0")]],
     [t |-> "object", feed |-> Str("")], [t |-> "object", feed |-> [t |-> "object"]]}
    \cup {[t |-> "object", feed |-> [t |-> "object", entry |-> e]] : e \in EntryValues}
    \cup {[t |-> "object", feed |-> [t |-> "object", entry |-> Arr(es)]] : es \in EntryArrays}

EnvCanBodies ==
    {[k |-> "malformed", message |-> "Closing Tag is not closed."]}
    \cup {[k |-> "xml", tree |-> tr] : tr \in Trees}

Bodies(h) == IF HandlerOf(h) = "ttc" THEN TtcBodies ELSE EnvCanBodies

\* req.query.region: absent, empty, one value, or an array when the
\* parameter is repeated.
Queries(h) ==
    IF HandlerOf(h) = "ttc" THEN {Undefined}
    ELSE {Undefined, Str(""), Str("on61"), Str("qc147"), Arr(<<Str("on61"), Str("qc147")>>)}

UpstreamResponses ==
    {[status |-> 200, statusText |-> "OK"], [status |-> 299, statusText |-> ""],
     [status |-> 304, statusText |-> "Not Modified"], [status |-> 404, statusText |-> "Not Found"],
     [status |-> 503, statusText |-> "Service Unavailable"], [status |-> 503, statusText |-> ""]}

\* What a rejected promise or a throwing call can carry: an Error, an
\* object without message, a non-object.
NoMessage == [t |-> "object", name |-> "Error", message |-> Undefined]
FetchErrors == {JsError("fetch failed"), NoMessage, Undefined}
ReadErrors == {JsError("terminated"), NoMessage}
WriteErrors == {JsError("Do not know how to serialize a BigInt")}

(***************************************************************************)
(* State: one invocation of each handler.                                  *)
(***************************************************************************)
VARIABLES
    pc,        \* where each invocation stands: idle, fetching, reading, done
    query,     \* req.query.region of the invocation
    region,    \* the handler's local `region` (envcan)
    fetches,   \* the URLs of the outbound GETs issued, in order
    upstream,  \* how the fetch settled
    payload,   \* how the body read settled
    res,       \* the response object: headers, status, what was sent
    thrown     \* what the catch block received

\* The focus timer of the dashboard component (useState, lines 231-235).
VARIABLES
    workMin,   \* length of the work phase, minutes
    breakMin,  \* length of the break phase, minutes
    secsLeft,  \* seconds left in the phase
    running,   \* whether the interval ticks
    phase      \* "work" or "break"

timer == <<workMin, breakMin, secsLeft, running, phase>>

vars == <<pc, query, region, fetches, upstream, payload, res, thrown,
          workMin, breakMin, secsLeft, running, phase>>

Handlers == {"ttc", "envcan"}

\* Number(localStorage.getItem(key)) || fallback; no item reads as 0.
NoItem == 0

StoredOr(item, fallback) == IF item # 0 THEN item ELSE fallback

\* The component mounts: the useState initialisers, given what localStorage
\* holds.  The effect of lines 263-266 then sets secsLeft to the same value.
Mount(storedWork, storedBreak) ==
    /\ workMin = StoredOr(storedWork, 25)
    /\ breakMin = StoredOr(storedBreak, 5)
    /\ secsLeft = workMin * 60
    /\ running = FALSE
    /\ phase = "work"

None == [k |-> "none"]

Init ==
    /\ pc = [h \in Handlers |-> "idle"]
    /\ query = [h \in Handlers |-> Undefined]
    /\ region = [h \in Handlers |-> Undefined]
    /\ fetches = [h \in Handlers |-> <<>>]
    /\ upstream = [h \in Handlers |-> None]
    /\ payload = [h \in Handlers |-> None]
    /\ res = [h \in Handlers |-> NewRes]
    /\ thrown = [h \in Handlers |-> None]
    /\ Mount(NoItem, NoItem)

Url(h, rg) == IF HandlerOf(h) = "ttc" THEN TTC_ALERTS_FEED ELSE EnvCanUrl(rg)

\* The try block is left by a throw: the catch block answers 500.
Fail(h, r, err) ==
    /\ res' = [res EXCEPT ![h] = Catch(r, err)]
    /\ thrown' = [thrown EXCEPT ![h] = [k |-> "thrown", err |-> err]]
    /\ pc' = [pc EXCEPT ![h] = "done"]

\* The handler is called and runs to its first await: the fetch is issued.
Invoke(h, q) ==
    /\ pc[h] = "idle"
    /\ query' = [query EXCEPT ![h] = q]
    /\ region' = [region EXCEPT ![h] = IF HandlerOf(h) = "envcan" THEN ResolveRegion(q) ELSE Undefined]
    /\ fetches' = [fetches EXCEPT ![h] = Append(@, Url(h, region'[h]))]
    /\ pc' = [pc EXCEPT ![h] = "fetching"]
    /\ UNCHANGED <<upstream, payload, res, thrown>>

FetchRejectsRetry(h, err) ==
    /\ pc[h] = "fetching"
    /\ upstream' = [upstream EXCEPT ![h] = [k |-> "rejected", err |-> err]]
    /\ fetches' = [fetches EXCEPT ![h] = Append(@, Url(h, region[h]))]
    /\ UNCHANGED <<pc, query, region, payload, res, thrown>>

\* The fetch promise rejects (no connection, reset, ...).
FetchRejects(h, err) ==
    /\ pc[h] = "fetching"
    /\ upstream' = [upstream EXCEPT ![h] = [k |-> "rejected", err |-> err]]
    /\ Fail(h, res[h], err)
    /\ UNCHANGED <<query, region, fetches, payload>>

\* The fetch promise resolves: the status check, then the body read starts.
FetchResolves(h, resp) ==
    /\ pc[h] = "fetching"
    /\ upstream' = [upstream EXCEPT ![h] =
                        [k |-> "response", status |-> resp.status, statusText |-> resp.statusText]]
    /\ IF Ok(resp)
       THEN /\ pc' = [pc EXCEPT ![h] = "reading"]
            /\ UNCHANGED <<res, thrown>>
       ELSE Fail(h, res[h], FetchFailed(h, resp))
    /\ UNCHANGED <<query, region, fetches, payload>>

\* resp.arrayBuffer() / r.text() rejects.
BodyRejects(h, err) ==
    /\ pc[h] = "reading"
    /\ payload' = [payload EXCEPT ![h] = [k |-> "rejected", err |-> err]]
    /\ Fail(h, res[h], err)
    /\ UNCHANGED <<query, region, fetches, upstream>>

PipelineSharedRegion(h, body) ==
    IF HandlerOf(h) = "ttc" THEN TtcPipeline(body)
    ELSE EnvCanPipeline(IF pc[Second] # "idle" THEN region[Second] ELSE region[h], body)

Pipeline(h, body) == IF HandlerOf(h) = "ttc" THEN TtcPipeline(body) ELSE EnvCanPipeline(region[h], body)

RespondThenFail(h, result, writeErr) ==
    IF ~result.ok THEN Fail(h, res[h], result.err)
    ELSE IF writeErr # None
    THEN Fail(h, Json(Prepare200(res[h], h), result.value), writeErr)
    ELSE /\ res' = [res EXCEPT ![h] = Json(Prepare200(res[h], h), result.value)]
         /\ pc' = [pc EXCEPT ![h] = "done"]
         /\ UNCHANGED thrown

\* The end of the try block, given the outcome of decode/parse and map.
\* res.json stringifies before it sends, so a throw there leaves nothing sent.
Respond(h, result, writeErr) ==
    IF ~result.ok THEN Fail(h, res[h], result.err)
    ELSE IF writeErr # None THEN Fail(h, Prepare200(res[h], h), writeErr)
    ELSE /\ res' = [res EXCEPT ![h] = Json(Prepare200(res[h], h), result.value)]
         /\ pc' = [pc EXCEPT ![h] = "done"]
         /\ UNCHANGED thrown

\* The body arrives: decode/parse, map and respond run to the end.
BodyResolves(h, body, writeErr) ==
    /\ pc[h] = "reading"
    /\ payload' = [payload EXCEPT ![h] = body]
    /\ Respond(h, Pipeline(h, body), writeErr)
    /\ UNCHANGED <<query, region, fetches, upstream>>

\* Requests are served one at a time; At(h, where) is the invocation that
\* can take a step, standing at `where`.
Alone(h) == \A g \in Handlers \ {h} : pc[g] = "idle"

At(h, where) == Alone(h) /\ pc[h] = where

Next ==
    \/ \E h \in Handlers :
           At(h, "idle") /\ UNCHANGED timer /\ \E q \in Queries(h) : Invoke(h, q)
    \/ \E h \in Handlers :
           At(h, "fetching") /\ UNCHANGED timer /\ \E err \in FetchErrors : FetchRejects(h, err)
    \/ \E h \in Handlers :
           At(h, "fetching") /\ UNCHANGED timer
             /\ \E resp \in UpstreamResponses : FetchResolves(h, resp)
    \/ \E h \in Handlers :
           At(h, "reading") /\ UNCHANGED timer /\ \E err \in ReadErrors : BodyRejects(h, err)
    \/ \E h \in Handlers :
           At(h, "reading") /\ UNCHANGED timer
             /\ \E body \in Bodies(h), writeErr \in WriteErrors \cup {None} :
                    BodyResolves(h, body, writeErr)

Spec == Init /\ [][Next]_vars

(***************************************************************************)
(* The same handlers with invocations in flight together: one of the       *)
(* transit handler and two of the weather handler, every step of one free  *)
(* to fall between the steps of the others.  Each is an async function     *)
(* that suspends at its awaits (fetch, body read); the inputs are few,     *)
(* one per branch, so that the interleavings stay countable.               *)
(***************************************************************************)
Invocations == Handlers \cup {Second}

InitConcurrent ==
    /\ pc = [i \in Invocations |-> "idle"]
    /\ query = [i \in Invocations |-> Undefined]
    /\ region = [i \in Invocations |-> Undefined]
    /\ fetches = [i \in Invocations |-> <<>>]
    /\ upstream = [i \in Invocations |-> None]
    /\ payload = [i \in Invocations |-> None]
    /\ res = [i \in Invocations |-> NewRes]
    /\ thrown = [i \in Invocations |-> None]
    /\ Mount(NoItem, NoItem)

FewQueries(i) == IF HandlerOf(i) = "ttc" THEN {Undefined} ELSE {Undefined, Str("qc147")}

FewResponses ==
    {[status |-> 200, statusText |-> "OK"], [status |-> 503, statusText |-> "Service Unavailable"]}

FewBodies(i) ==
    IF HandlerOf(i) = "ttc"
    THEN {[k |-> "malformed", message |-> "index out of range: 3 + 10 > 5"],
          [k |-> "feed", feed |-> [t |-> "object", entity |-> Arr(<<Entity("a2", ClosureAlert)>>)]]}
    ELSE {[k |-> "malformed", message |-> "Closing Tag is not closed."],
          [k |-> "xml", tree |-> [t |-> "object", feed |-> [t |-> "object"]]],
          [k |-> "xml", tree |-> [t |-> "object", feed |-> [t |-> "object", entry |-> WatchEntry]]]}

NextConcurrent ==
    \/ \E i \in Invocations :
           pc[i] = "idle" /\ UNCHANGED timer /\ \E q \in FewQueries(i) : Invoke(i, q)
    \/ \E i \in Invocations :
           pc[i] = "fetching" /\ UNCHANGED timer /\ FetchRejects(i, JsError("fetch failed"))
    \/ \E i \in Invocations :
           pc[i] = "fetching" /\ UNCHANGED timer
             /\ \E resp \in FewResponses : FetchResolves(i, resp)
    \/ \E i \in Invocations :
           pc[i] = "reading" /\ UNCHANGED timer /\ BodyRejects(i, JsError("terminated"))
    \/ \E i \in Invocations :
           pc[i] = "reading" /\ UNCHANGED timer
             /\ \E body \in FewBodies(i), writeErr \in WriteErrors \cup {None} :
                    BodyResolves(i, body, writeErr)

Concurrent == InitConcurrent /\ [][NextConcurrent]_vars

(***************************************************************************)
(* The focus timer of the dashboard component.  One action is one event    *)
(* (a click, an input change, a tick of the interval) with the render and  *)
(* the effects it triggers: the effect of lines 263-266 runs after every   *)
(* render in which workMin, breakMin, phase or running has changed.        *)
(***************************************************************************)
clamp(n, min, max) == IF n < min THEN min ELSE IF n > max THEN max ELSE n

\* (phase === "work" ? workMin : breakMin) * 60
FullLength(ph, work, break) == (IF ph = "work" THEN work ELSE break) * 60

\* if (!running) setSecsLeft(...), after a render that changed a dependency.
ResetWhenStopped(secs, run, ph, work, break) ==
    IF ~run THEN FullLength(ph, work, break) ELSE secs

\* The values typed or stepped to stay within these while exploring.
MaxWorkMin == 25
MaxBreakMin == 5
WorkInputs == {0, 10}
BreakInputs == {0, 2}

handlerVars == <<pc, query, region, fetches, upstream, payload, res, thrown>>

\* Start: setRunning(true); the effect finds running true and does nothing.
Start ==
    /\ running' = TRUE
    /\ UNCHANGED <<workMin, breakMin, secsLeft, phase, handlerVars>>

\* Pause: setRunning(false).  When that changes running, the effect runs
\* with running false.
Pause ==
    /\ running' = FALSE
    /\ secsLeft' = IF running THEN ResetWhenStopped(secsLeft, FALSE, phase, workMin, breakMin)
                   ELSE secsLeft
    /\ UNCHANGED <<workMin, breakMin, phase, handlerVars>>

\* Reset: setRunning(false); setPhase("work"); setSecsLeft(workMin * 60).
Reset ==
    /\ running' = FALSE
    /\ phase' = "work"
    /\ secsLeft' = ResetWhenStopped(workMin * 60, FALSE, "work", workMin, breakMin)
    /\ UNCHANGED <<workMin, breakMin, handlerVars>>

\* The interval callback, once a second while running.
Tick ==
    /\ running
    /\ IF secsLeft <= 1
       THEN /\ phase' = (IF phase = "work" THEN "break" ELSE "work")
            /\ secsLeft' = FullLength(phase', workMin, breakMin)
       ELSE /\ secsLeft' = secsLeft - 1
            /\ UNCHANGED phase
    /\ UNCHANGED <<workMin, breakMin, running, handlerVars>>

\* setWorkMin(m): the -5 and +5 buttons and the input box.
SetWorkMin(m) ==
    /\ m <= MaxWorkMin
    /\ workMin' = m
    /\ secsLeft' = IF m # workMin
                   THEN ResetWhenStopped(secsLeft, running, phase, m, breakMin)
                   ELSE secsLeft
    /\ UNCHANGED <<breakMin, running, phase, handlerVars>>

\* setBreakMin(m): the -1 and +1 buttons and the input box.
SetBreakMin(m) ==
    /\ m <= MaxBreakMin
    /\ breakMin' = m
    /\ secsLeft' = IF m # breakMin
                   THEN ResetWhenStopped(secsLeft, running, phase, workMin, m)
                   ELSE secsLeft
    /\ UNCHANGED <<workMin, running, phase, handlerVars>>

InitTimer ==
    /\ pc = [h \in Handlers |-> "idle"]
    /\ query = [h \in Handlers |-> Undefined]
    /\ region = [h \in Handlers |-> Undefined]
    /\ fetches = [h \in Handlers |-> <<>>]
    /\ upstream = [h \in Handlers |-> None]
    /\ payload = [h \in Handlers |-> None]
    /\ res = [h \in Handlers |-> NewRes]
    /\ thrown = [h \in Handlers |-> None]
    /\ \E storedWork \in {NoItem, 10}, storedBreak \in {NoItem, 1} :
          Mount(storedWork, storedBreak)

NextTimer ==
    \/ Start
    \/ Pause
    \/ Reset
    \/ Tick
    \/ SetWorkMin(clamp(workMin - 5, 5, 180))
    \/ SetWorkMin(clamp(workMin + 5, 5, 180))
    \/ \E v \in WorkInputs : SetWorkMin(clamp(v, 5, 180))
    \/ SetBreakMin(clamp(breakMin - 1, 1, 60))
    \/ SetBreakMin(clamp(breakMin + 1, 1, 60))
    \/ \E v \in BreakInputs : SetBreakMin(clamp(v, 1, 60))

Timer == InitTimer /\ [][NextTimer]_vars

(***************************************************************************)
(* Vocabulary of the properties.                                           *)
(***************************************************************************)
Done(h) == pc[h] = "done"
Sent(h) == res[h].out
Responded(h, code) == Len(Sent(h)) = 1 /\ Sent(h)[1].status = code
Failed(h) == thrown[h] # None
HasMessage(e) == e.t = "object" /\ e.message.t = "string"
UpstreamNotOk(h) ==
    upstream[h].k = "response" /\ (upstream[h].status < 200 \/ upstream[h].status > 299)

(***************************************************************************)
(* C1: in both handlers every failure of the pipeline (fetch rejection,    *)
(* non-success status, body read, decode/parse, mapping, writing the 200)  *)
(* reaches the catch block and becomes one HTTP 500 whose body is          *)
(* { error: message }, the failure's message, or "failed" when it has      *)
(* none; the handler ends normally.                                        *)
(***************************************************************************)
C1_FailuresBecome500 ==
    \A h \in Handlers :
        /\ upstream[h].k = "rejected" => thrown[h] = [k |-> "thrown", err |-> upstream[h].err]
        /\ UpstreamNotOk(h) => Failed(h)
        /\ payload[h].k = "rejected" => thrown[h] = [k |-> "thrown", err |-> payload[h].err]
        /\ payload[h].k = "malformed" => Failed(h)
        /\ Done(h) /\ ~Responded(h, 200) => Failed(h)
        /\ Failed(h) =>
              /\ Done(h)
              /\ Responded(h, 500)
              /\ Sent(h)[1].body =
                    [error |-> IF HasMessage(thrown[h].err) THEN thrown[h].err.message
                               ELSE Str("failed")]

C1_Witness ==
    \E h \in Handlers :
        /\ Failed(h) /\ ~HasMessage(thrown[h].err)
        /\ Responded(h, 500) /\ Sent(h)[1].body = [error |-> Str("failed")]

(***************************************************************************)
(* C2: when the transit handler responds 200, count is alerts.length and   *)
(* alerts holds one record per feed entity carrying an alert payload, in   *)
(* feed order; an entity without one is dropped (one record fewer) and     *)
(* causes no error.                                                        *)
(***************************************************************************)
TtcEntities == payload["ttc"].feed.entity.items
CarriesAlert(e) == e.alert.t = "object"
\* How many of the first i entities carry an alert payload.
Carrying(i) == Cardinality({j \in 1..i : CarriesAlert(TtcEntities[j])})

C2_OneAlertPerCarryingEntity ==
    /\ Responded("ttc", 200) =>
          LET b == Sent("ttc")[1].body
          IN /\ b.count = Len(b.alerts)
             /\ Len(b.alerts) = Carrying(Len(TtcEntities))
             /\ Len(b.alerts) =
                   Len(TtcEntities)
                     - Cardinality({j \in 1..Len(TtcEntities) : ~CarriesAlert(TtcEntities[j])})
             /\ \A i \in 1..Len(TtcEntities) :
                   CarriesAlert(TtcEntities[i]) =>
                       b.alerts[Carrying(i)].id = TtcEntities[i].id
    /\ /\ Done("ttc") /\ payload["ttc"].k = "feed"
       /\ \A i \in 1..Len(TtcEntities) : ~CarriesAlert(TtcEntities[i])
       /\ ~(Failed("ttc") /\ thrown["ttc"].err \in WriteErrors)
       => Responded("ttc", 200) /\ Sent("ttc")[1].body.count = 0

C2_Witness ==
    /\ Responded("ttc", 200)
    /\ Len(TtcEntities) = 2
    /\ ~CarriesAlert(TtcEntities[1]) /\ CarriesAlert(TtcEntities[2])
    /\ Sent("ttc")[1].body.count = 1
    /\ Sent("ttc")[1].body.alerts[1].id = TtcEntities[2].id

(***************************************************************************)
(* C3: every response either handler sends, 200 or 500, carries            *)
(* Access-Control-Allow-Origin: *.                                         *)
(***************************************************************************)
C3_CorsOnEveryResponse ==
    \A h \in Handlers : \A i \in 1..Len(Sent(h)) :
        Sent(h)[i].headers["Access-Control-Allow-Origin"] = "*"

C3_Witness ==
    \E h \in Handlers :
        /\ payload[h].k = "rejected" /\ Responded(h, 500)
        /\ Sent(h)[1].headers["Access-Control-Allow-Origin"] = "*"

(***************************************************************************)
(* C4: an upstream status outside 200..299 gives HTTP 500 with the error   *)
(* "TTC alerts fetch failed: <status> <statusText>" (transit) or           *)
(* "EnvCan fetch failed: <status> <statusText>" (weather), and the body is *)
(* never read, decoded, parsed or mapped.                                  *)
(***************************************************************************)
C4_UpstreamStatusSurfaces ==
    \A h \in Handlers :
        UpstreamNotOk(h) =>
            /\ Responded(h, 500)
            /\ Sent(h)[1].body =
                  [error |-> Str((IF h = "ttc" THEN "TTC alerts fetch failed: "
                                  ELSE "EnvCan fetch failed: ")
                                 \o ToString(upstream[h].status) \o " "
                                 \o upstream[h].statusText)]
            /\ payload[h] = None

C4_Witness ==
    /\ upstream["envcan"] = [k |-> "response", status |-> 404, statusText |-> "Not Found"]
    /\ Responded("envcan", 500)
    /\ Sent("envcan")[1].body = [error |-> Str("EnvCan fetch failed: 404 Not Found")]

(***************************************************************************)
(* C5: in a weather 200, entries has length 0 when the source entry node   *)
(* is absent, 1 when the source has exactly one entry element (parsed as   *)
(* a single non-array value), N when it has N (parsed as a list).          *)
(***************************************************************************)
EntryNode == Get(Get(payload["envcan"].tree, "feed"), "entry")

C5_EntriesLengthMatchesSource ==
    Responded("envcan", 200) /\ payload["envcan"].k = "xml" =>
        Len(Sent("envcan")[1].body.entries) =
            (CASE EntryNode = Undefined -> 0
               [] EntryNode.t = "array" -> Len(EntryNode.items)
               [] OTHER -> 1)

(***************************************************************************)
(* C6: for every valid binary feed payload the transit handler responds    *)
(* 200 and each alert has the full key set, every field the source did not *)
(* provide being null, never omitted (undefined).                          *)
(***************************************************************************)
AlertKeys ==
    {"id", "header", "description", "url", "cause", "effect", "severity",
     "activePeriods", "informed"}

StableShape(a) ==
    /\ DOMAIN a = AlertKeys \cup {"t"}
    /\ \A key \in AlertKeys \ {"activePeriods", "informed"} : a[key] # Undefined
    /\ \A j \in 1..Len(a.activePeriods) :
          /\ DOMAIN a.activePeriods[j] = {"t", "start", "end"}
          /\ a.activePeriods[j].start # Undefined /\ a.activePeriods[j].end # Undefined
    /\ \A j \in 1..Len(a.informed) :
          /\ DOMAIN a.informed[j] = {"t", "routeId", "stopId", "tripId"}
          /\ \A key \in {"routeId", "stopId", "tripId"} : a.informed[j][key] # Undefined

C6_ValidPayloadStableShape ==
    /\ Done("ttc") /\ payload["ttc"].k = "feed"
    /\ ~(Failed("ttc") /\ thrown["ttc"].err \in WriteErrors)
    => /\ Responded("ttc", 200)
       /\ \A k \in 1..Len(Sent("ttc")[1].body.alerts) :
             StableShape(Sent("ttc")[1].body.alerts[k])

\* The part of C6 that holds: the shape of every alert of every 200.
ShapeOfEvery200 ==
    Responded("ttc", 200) =>
        \A k \in 1..Len(Sent("ttc")[1].body.alerts) :
            StableShape(Sent("ttc")[1].body.alerts[k])

(***************************************************************************)
(* C7: in a transit 200 each bound of each active period is the ISO        *)
(* timestamp of its epoch seconds when the bound is present and non-zero,  *)
(* and null otherwise (a period with only a start gets end: null); the     *)
(* periods keep the source order.                                          *)
(***************************************************************************)
PresentNonZero(b) == b.t = "number" /\ ~(b.days = 0 /\ b.secs = 0)
ExpectedBound(b) == IF PresentNonZero(b) THEN Str(ToISOString(b)) ELSE Null
SourcePeriods(e) ==
    IF e.alert.activePeriod.t = "array" THEN e.alert.activePeriod.items ELSE <<>>

C8_RegionEchoed ==
    Responded("envcan", 200) =>
        LET rg == Sent("envcan")[1].body.region
        IN /\ rg.t = "string"
           /\ fetches["envcan"] = <<"https://weather.gc.ca/rss/battleboard/" \o rg.s \o "_e.xml">>
           /\ query["envcan"] \in {Undefined, Str("")} => rg = Str("on61")

(***************************************************************************)
(* C9: a success-status body that is malformed or of an unexpected format  *)
(* (undecodable bytes for transit, text that is not an Atom feed for       *)
(* weather) is a decode/parse failure: HTTP 500 with the failure's         *)
(* message, never 200.                                                     *)
(***************************************************************************)
NotAtom(body) == body.k = "xml" /\ Get(body.tree, "feed") = Undefined

C9_BadBodyIs500 ==
    \A h \in Handlers :
        Done(h) /\ (payload[h].k = "malformed" \/ NotAtom(payload[h])) =>
            Responded(h, 500)

\* The part of C9 that holds: a body the decoder or the parser rejects gives
\* 500 with the message of that failure; a weather body that parses but
\* holds no Atom feed is answered 200 with no entries.
RejectedBodyIs500 ==
    \A h \in Handlers :
        /\ payload[h].k = "malformed" =>
              /\ Responded(h, 500)
              /\ Sent(h)[1].body = [error |-> Str(payload[h].message)]
        /\ Done(h) /\ NotAtom(payload[h]) /\ ~Failed(h) =>
              /\ Responded(h, 200)
              /\ Sent(h)[1].body.entries = <<>>
        /\ NotAtom(payload[h]) /\ Failed(h) => thrown[h].err \in WriteErrors

(***************************************************************************)
(* C10: an invocation issues exactly one upstream GET, before any response *)
(* is sent, and never repeats it: an upstream failure is not retried, it   *)
(* is the 500 of the same invocation at once.                              *)
(***************************************************************************)
C10_OneFetchNoRetry ==
    \A h \in Handlers :
        /\ Len(fetches[h]) = (IF pc[h] = "idle" THEN 0 ELSE 1)
        /\ Len(Sent(h)) > 0 => Len(fetches[h]) = 1
        /\ pc[h] \in {"idle", "fetching"} => Len(Sent(h)) = 0
        /\ upstream[h].k = "rejected" \/ UpstreamNotOk(h) =>
              Done(h) /\ Responded(h, 500) /\ Len(fetches[h]) = 1

C10_Witness ==
    \E h \in Handlers :
        /\ upstream[h].k = "rejected"
        /\ Responded(h, 500)
        /\ Len(fetches[h]) = 1

(***************************************************************************)
(* C11: under any interleaving of concurrent invocations, the response of  *)
(* each invocation is a function of its own request and of the upstream    *)
(* outcome of its own fetch; a step of one invocation reads and writes     *)
(* nothing of another, so no entries, alerts, region or error message of   *)
(* one request shows in the response of another.                           *)
(***************************************************************************)
\* What the invocation fetches and answers, computed from its own request,
\* the settlement of its own fetch and body read, and its own write failure.
OwnUrl(i) == Url(i, ResolveRegion(query[i]))

OwnResult(i) ==
    IF HandlerOf(i) = "ttc" THEN TtcPipeline(payload[i])
    ELSE EnvCanPipeline(ResolveRegion(query[i]), payload[i])

OwnOutcome(i, result) ==
    IF ~result.ok THEN Catch(NewRes, result.err)
    ELSE IF thrown[i] # None THEN Catch(Prepare200(NewRes, i), thrown[i].err)
    ELSE Json(Prepare200(NewRes, i), result.value)

OwnAnswer(i) ==
    IF upstream[i].k = "rejected" THEN Catch(NewRes, upstream[i].err)
    ELSE IF ~Ok(upstream[i]) THEN Catch(NewRes, FetchFailed(i, upstream[i]))
    ELSE IF payload[i].k = "rejected" THEN Catch(NewRes, payload[i].err)
    ELSE OwnOutcome(i, OwnResult(i))

AnswersOwnRequest ==
    \A i \in Invocations :
        /\ pc[i] # "idle" => fetches[i] = <<OwnUrl(i)>>
        /\ pc[i] # "done" => res[i] = NewRes
        /\ pc[i] = "done" => res[i] = OwnAnswer(i)

Untouched(i) ==
    /\ pc'[i] = pc[i] /\ query'[i] = query[i] /\ region'[i] = region[i]
    /\ fetches'[i] = fetches[i] /\ upstream'[i] = upstream[i]
    /\ payload'[i] = payload[i] /\ res'[i] = res[i] /\ thrown'[i] = thrown[i]

StepsOfOne == \E i \in Invocations : \A j \in Invocations \ {i} : Untouched(j)

C11_InvocationsIsolated == []AnswersOwnRequest /\ [][StepsOfOne]_vars

\* Three invocations in flight at once: the second weather request has its
\* 200 for qc147 with one entry while the first, for the default region,
\* still reads its body and the transit request still awaits its fetch.
C11_Witness ==
    /\ pc["ttc"] = "fetching"
    /\ pc["envcan"] = "reading" /\ region["envcan"] = Str("on61")
    /\ Responded(Second, 200)
    /\ Sent(Second)[1].body.region = Str("qc147")
    /\ Len(Sent(Second)[1].body.entries) = 1

(***************************************************************************)
(* C12: header, description and url of an alert are taken from the first   *)
(* translation of their list only; when a list has several translations    *)
(* the text of a later one never appears in the output.                    *)
(***************************************************************************)
\* The source field of the feed and the field of the response it maps to.
TextFields == {<<"headerText", "header">>, <<"descriptionText", "description">>, <<"url", "url">>}

Translations(tx) == IF tx.t = "object" THEN tx.translation.items ELSE <<>>

FirstOnly(trs, out) ==
    Len(trs) >= 2 =>
        /\ out \in {trs[1].text, Null}
        /\ \A i \in 2..Len(trs) : out # trs[i].text

KeptAlerts == SelectSeq(TtcEntities, CarriesAlert)

C12_OnlyFirstTranslation ==
    Responded("ttc", 200) =>
        \A k \in 1..Len(KeptAlerts), f \in TextFields :
            FirstOnly(Translations(KeptAlerts[k].alert[f[1]]), Sent("ttc")[1].body.alerts[k][f[2]])

C12_Witness ==
    /\ Responded("ttc", 200)
    /\ \E k \in 1..Len(KeptAlerts) :
          /\ KeptAlerts[k].alert.headerText = TranslatedString(<<"Line closure", "Fermeture de ligne">>)
          /\ Sent("ttc")[1].body.alerts[k].header = Str("Line closure")

(***************************************************************************)
(* C13: header, description and url of an alert are each the first         *)
(* available localized text of their translation structure, and null only  *)
(* if the structure holds no localized text at all.                        *)
(***************************************************************************)
HasText(tr) == tr.text.t = "string" /\ tr.text.s # ""

FirstAvailable(trs, out) ==
    IF \E i \in 1..Len(trs) : HasText(trs[i])
    THEN out = SelectSeq(trs, HasText)[1].text
    ELSE out = Null

C13_FirstAvailableText ==
    Responded("ttc", 200) =>
        \A k \in 1..Len(KeptAlerts), f \in TextFields :
            FirstAvailable(Translations(KeptAlerts[k].alert[f[1]]),
                           Sent("ttc")[1].body.alerts[k][f[2]])

\* C13 as amended: each of header, description and url is the text of the
\* first translation of its structure when that text is not empty, and null
\* otherwise: when the structure or its list is absent or empty, and also
\* when the first translation has an empty text although a later one has
\* text.
FirstTranslation(trs, out) ==
    IF Len(trs) > 0 /\ HasText(trs[1]) THEN out = trs[1].text ELSE out = Null

C13_FirstTranslationText ==
    Responded("ttc", 200) =>
        \A k \in 1..Len(KeptAlerts), f \in TextFields :
            FirstTranslation(Translations(KeptAlerts[k].alert[f[1]]),
                             Sent("ttc")[1].body.alerts[k][f[2]])

C13_Witness ==
    /\ Responded("ttc", 200)
    /\ \E k \in 1..Len(KeptAlerts) :
          /\ KeptAlerts[k].alert.url = TranslatedString(<<"", "Fermeture de ligne">>)
          /\ Sent("ttc")[1].body.alerts[k].url = Null
          /\ Sent("ttc")[1].body.alerts[k].header = Str("Line closure")

(***************************************************************************)
(* C14: for every entry of a weather feed, title and summary of the        *)
(* response are the whitespace-trimmed text of the source title and        *)
(* summary nodes (the summary from a plain text node or from the text      *)
(* portion of a mixed-content node), and the empty string when the node    *)
(* is absent.                                                              *)
(***************************************************************************)
\* The text a parsed node stands for: its string, the digits of a number,
\* the "#text" of an element with attributes, "" when there is none.
TextOf(v) ==
    CASE v.t = "string" -> v.s
      [] v.t = "number" -> ToString(v.n)
      [] OTHER -> ""

NodeText(node) == IF node.t = "object" THEN TextOf(Get(node, "#text")) ELSE TextOf(node)

SourceEntries == EntryList(Get(Get(payload["envcan"].tree, "feed"), "entry"))

TrimmedTexts(e, out) ==
    /\ out.title = Str(Trim(NodeText(Get(e, "title"))))
    /\ out.summary = Str(Trim(NodeText(Get(e, "summary"))))

C14_TitleSummaryTrimmed ==
    Responded("envcan", 200) =>
        \A j \in 1..Len(SourceEntries) :
            TrimmedTexts(SourceEntries[j], Sent("envcan")[1].body.entries[j])

\* The part of C14 that holds: title and summary nodes that are absent or
\* carry non-numeric text (plain, or as "#text" for the summary).
Textual(node) == node.t \in {"undefined", "string"} \/ Get(node, "#text").t = "string"

TextualTrimmed ==
    Responded("envcan", 200) =>
        \A j \in 1..Len(SourceEntries) :
            /\ Get(SourceEntries[j], "title").t \in {"undefined", "string", "number"}
               => Sent("envcan")[1].body.entries[j].title
                    = Str(Trim(NodeText(Get(SourceEntries[j], "title"))))
            /\ Textual(Get(SourceEntries[j], "summary"))
               => Sent("envcan")[1].body.entries[j].summary
                    = Str(Trim(NodeText(Get(SourceEntries[j], "summary"))))

(***************************************************************************)
(* C15: every transit 200 carries Cache-Control: s-maxage=60,              *)
(* stale-while-revalidate=300 and every weather 200 carries s-maxage=120,  *)
(* stale-while-revalidate=600; the header is set only after fetch,         *)
(* decode/parse and mapping have all succeeded.                            *)
(***************************************************************************)
Mapped(h) ==
    /\ upstream[h].k = "response" /\ Ok(upstream[h])
    /\ payload[h].k \in {"feed", "xml"}
    /\ Pipeline(h, payload[h]).ok

C15_CacheControlAfterSuccess ==
    /\ Responded("ttc", 200) =>
          Sent("ttc")[1].headers["Cache-Control"] = "s-maxage=60, stale-while-revalidate=300"
    /\ Responded("envcan", 200) =>
          Sent("envcan")[1].headers["Cache-Control"] = "s-maxage=120, stale-while-revalidate=600"
    /\ \A h \in Handlers :
          /\ res[h].headers["Cache-Control"] # "" => Done(h) /\ Mapped(h)
          /\ Done(h) /\ ~Mapped(h) =>
                Responded(h, 500) /\ Sent(h)[1].headers["Cache-Control"] = ""

C15_Witness ==
    /\ Responded("envcan", 200)
    /\ Len(Sent("envcan")[1].body.entries) = 2
    /\ Sent("envcan")[1].headers["Cache-Control"] = "s-maxage=120, stale-while-revalidate=600"

(***************************************************************************)
(* C16: each invocation sends exactly one response.  On every path, a      *)
(* failure while the 200 is written included, one status and one JSON body *)
(* leave: never a 200 and a 500 both, and an invocation whose fetch has    *)
(* settled does not finish without a response.                             *)
(***************************************************************************)
OneResponse ==
    \A h \in Handlers :
        /\ Len(Sent(h)) <= 1
        /\ Done(h) <=> Len(Sent(h)) = 1
        /\ Len(Sent(h)) = 1 => Sent(h)[1].status \in {200, 500}
        /\ upstream[h] # None => pc[h] \in {"reading", "done"}
        /\ Failed(h) => Responded(h, 500)

ResponseFinal == \A h \in Handlers : Len(Sent(h)) = 1 => res'[h] = res[h] /\ pc'[h] = pc[h]

C16_ExactlyOneResponse == []OneResponse /\ [][ResponseFinal]_vars

C16_Witness ==
    \E h \in Handlers :
        /\ Failed(h) /\ thrown[h].err \in WriteErrors
        /\ Mapped(h)
        /\ Responded(h, 500)
        /\ Sent(h)[1].body = [error |-> Str("Do not know how to serialize a BigInt")]

(***************************************************************************)
(* C17: pressing Pause while the focus timer runs leaves the phase and the *)
(* remaining seconds unchanged, so that a later Start resumes from the     *)
(* same remaining time; secsLeft goes back to the full phase length only   *)
(* by Reset, by a phase change, or by a change of the work or break length *)
(* while the timer is not running.                                         *)
(***************************************************************************)
PauseKeepsRemaining == running /\ Pause => secsLeft' = secsLeft /\ phase' = phase

LengthChangedWhileStopped == ~running /\ (workMin' # workMin \/ breakMin' # breakMin)

BackToFull == secsLeft' # secsLeft /\ secsLeft' = FullLength(phase', workMin', breakMin')

FullOnlyByResetOrChange ==
    BackToFull => Reset \/ phase' # phase \/ LengthChangedWhileStopped

C17_PauseKeepsRemaining == [][PauseKeepsRemaining /\ FullOnlyByResetOrChange]_vars

\* What the timer does instead: whenever it is not running, secsLeft is
\* the full length of the phase; a pause gives up the time counted down.
StoppedMeansFull == ~running => secsLeft = FullLength(phase, workMin, breakMin)

====
